---- MODULE Spec2Model ----
(***************************************************************************)
(* Model of tensorflow/contrib/gan/python/namedtuples.py.                  *)
(*                                                                         *)
(* The module defines six record classes, each a subclass of a class made  *)
(* by collections.namedtuple(typename, field_names).  A class made that    *)
(* way is a tuple subclass whose __new__ takes one parameter per field     *)
(* name, in order, and whose fields are read-only properties that index    *)
(* the tuple.  The model holds the class attribute _fields of each class,  *)
(* the object a caller's reference points to, the outcome of the last      *)
(* operation, and the reader threads that share the object.                *)
(***************************************************************************)
EXTENDS Naturals, Sequences, FiniteSets

VARIABLES
  fields,   \* class attribute _fields of each schema class
  obj,      \* the object the caller's reference points to
  last,     \* the last operation and its outcome
  pc,       \* reader threads: position in an attribute read
  rname,    \* reader threads: the field name being read
  ridx,     \* reader threads: the tuple index the property resolved to
  got       \* reader threads: the value the read returned

vars == <<fields, obj, last, pc, rname, ridx, got>>

\* ---------------------------------------------------------------- bounds

\* Field values are opaque objects 0 .. NumValues-1.
NumValues == 2

\* Reader threads sharing one instance.
NumThreads == 2

Values == 0 .. (NumValues - 1)
Threads == 1 .. NumThreads
\* The length of the list a value stands for (values are otherwise opaque).
SeqLen(v) == v

Range(s) == {s[i] : i \in 1 .. Len(s)}
IndexOf(s, e) == CHOOSE i \in 1 .. Len(s) : s[i] = e
Reverse(s) == [i \in 1 .. Len(s) |-> s[Len(s) + 1 - i]]

\* ------------------------------------------------------ class definitions

GANModel_fieldsSwapped ==
  << "generated_data", "generator_inputs", "generator_variables",
     "generator_scope", "generator_fn", "real_data",
     "discriminator_real_outputs", "discriminator_gen_outputs",
     "discriminator_variables", "discriminator_scope", "discriminator_fn" >>

GANModel_fields ==
  << "generator_inputs", "generated_data", "generator_variables",
     "generator_scope", "generator_fn", "real_data",
     "discriminator_real_outputs", "discriminator_gen_outputs",
     "discriminator_variables", "discriminator_scope", "discriminator_fn" >>

InfoGANModel_fieldsPrepended ==
  << "structured_generator_inputs", "predicted_distributions" >>
    \o GANModel_fields

InfoGANModel_fields ==
  GANModel_fields
    \o << "structured_generator_inputs", "predicted_distributions" >>

ACGANModel_fields ==
  GANModel_fields
    \o << "one_hot_labels", "discriminator_real_classification_logits",
          "discriminator_gen_classification_logits" >>

GANLoss_fields == << "generator_loss", "discriminator_loss" >>

GANTrainOps_fields ==
  << "generator_train_op", "discriminator_train_op", "global_step_inc_op" >>

GANTrainSteps_fields ==
  << "generator_train_steps", "discriminator_train_steps" >>

\* __all__
Schemas ==
  { "GANModel", "InfoGANModel", "ACGANModel", "GANLoss", "GANTrainOps",
    "GANTrainSteps" }

ClassFields(c) ==
  CASE c = "GANModel" -> GANModel_fields
    [] c = "InfoGANModel" -> InfoGANModel_fields
    [] c = "ACGANModel" -> ACGANModel_fields
    [] c = "GANLoss" -> GANLoss_fields
    [] c = "GANTrainOps" -> GANTrainOps_fields
    [] c = "GANTrainSteps" -> GANTrainSteps_fields

\* ---------------------------------------------------------------- objects

\* A reference that points to nothing yet.
None == [cls |-> "None", items |-> << >>, supplied |-> {}]

\* A plain tuple, not an instance of any schema.
PlainTuple(items) == [cls |-> "tuple", items |-> items, supplied |-> {}]

IsInstance(o) == o.cls \in Schemas

\* The names of the fields an object has.
FieldNames(o) == IF IsInstance(o) THEN Range(fields[o.cls]) ELSE {}

\* A call's arguments: the positional values, then the keyword arguments as
\* <<name, value>> pairs in call-site order.
KwName(call, j) == call.kw[j][1]
KwNames(call) == {call.kw[j][1] : j \in 1 .. Len(call.kw)}
KwValue(call, name) ==
  call.kw[CHOOSE j \in 1 .. Len(call.kw) : call.kw[j][1] = name][2]

NoCall == [pos |-> << >>, kw |-> << >>]

Raise(e) == [ok |-> FALSE, items |-> << >>, err |-> e]
Return(items) == [ok |-> TRUE, items |-> items, err |-> ""]

\* ------------------------------------------------------------- operations

\* The field name each supplied value is bound to, in call order: the i-th
\* positional value goes to the i-th parameter, a keyword value to its name.
BoundNames(flds, call) ==
  [i \in 1 .. Len(call.pos) |->
      IF i <= Len(flds) THEN flds[i] ELSE "*args"]
    \o [j \in 1 .. Len(call.kw) |-> call.kw[j][1]]

BoundValues(call) ==
  call.pos \o [j \in 1 .. Len(call.kw) |-> call.kw[j][2]]

\* The <<field name, value>> pairs a call supplies.
Supplied(flds, call) ==
  {<<BoundNames(flds, call)[i], BoundValues(call)[i]>> :
      i \in 1 .. Len(BoundValues(call))}

\* The supplied values correspond one-to-one to the declared fields.
OneToOne(flds, call) ==
  /\ Len(BoundNames(flds, call)) = Len(flds)
  /\ Range(BoundNames(flds, call)) = Range(flds)

\* A constructor that drops surplus positional values instead of raising.
NewTruncating(flds, call) ==
  LET n == Len(flds)
      np == IF Len(call.pos) > n THEN n ELSE Len(call.pos)
  IN IF \E j \in 1 .. Len(call.kw) : KwName(call, j) \notin Range(flds)
       THEN Raise("TypeError")
     ELSE IF \E j \in 1 .. Len(call.kw) : IndexOf(flds, KwName(call, j)) <= np
       THEN Raise("TypeError")
     ELSE IF \E j, k \in 1 .. Len(call.kw) :
               j # k /\ KwName(call, j) = KwName(call, k)
       THEN Raise("TypeError")
     ELSE IF \E i \in (np + 1) .. n : flds[i] \notin KwNames(call)
       THEN Raise("TypeError")
     ELSE Return([i \in 1 .. n |->
                    IF i <= np THEN call.pos[i] ELSE KwValue(call, flds[i])])

\* A constructor that binds keyword values by call-site order, not by name.
NewKwByOrder(flds, call) ==
  LET n == Len(flds)
      np == Len(call.pos)
  IN IF np > n
       THEN Raise("TypeError")
     ELSE IF \E j \in 1 .. Len(call.kw) : KwName(call, j) \notin Range(flds)
       THEN Raise("TypeError")
     ELSE IF \E j \in 1 .. Len(call.kw) : IndexOf(flds, KwName(call, j)) <= np
       THEN Raise("TypeError")
     ELSE IF \E j, k \in 1 .. Len(call.kw) :
               j # k /\ KwName(call, j) = KwName(call, k)
       THEN Raise("TypeError")
     ELSE IF \E i \in (np + 1) .. n : flds[i] \notin KwNames(call)
       THEN Raise("TypeError")
     ELSE Return([i \in 1 .. n |->
                    IF i <= np THEN call.pos[i] ELSE call.kw[i - np][2]])

\* A constructor that enforces the documented InfoGANModel length match.
NewValidating(flds, call) ==
  LET n == Len(flds)
      np == Len(call.pos)
      items == [i \in 1 .. n |->
                  IF i <= np THEN call.pos[i] ELSE KwValue(call, flds[i])]
  IN IF np > n
       THEN Raise("TypeError")
     ELSE IF \E j \in 1 .. Len(call.kw) : KwName(call, j) \notin Range(flds)
       THEN Raise("TypeError")
     ELSE IF \E j \in 1 .. Len(call.kw) : IndexOf(flds, KwName(call, j)) <= np
       THEN Raise("TypeError")
     ELSE IF \E j, k \in 1 .. Len(call.kw) :
               j # k /\ KwName(call, j) = KwName(call, k)
       THEN Raise("TypeError")
     ELSE IF \E i \in (np + 1) .. n : flds[i] \notin KwNames(call)
       THEN Raise("TypeError")
     ELSE IF /\ "structured_generator_inputs" \in Range(flds)
             /\ SeqLen(items[IndexOf(flds, "structured_generator_inputs")])
                  # SeqLen(items[IndexOf(flds, "predicted_distributions")])
       THEN Raise("ValueError")
     ELSE Return(items)

\* __new__(_cls, f1, ..., fN) of a namedtuple class, called with positional
\* and keyword arguments: Python binds the positional values to the first
\* parameters and the keyword values by name, raises TypeError on a surplus
\* positional value, an unknown keyword, a parameter given twice or a
\* parameter left without a value (no parameter has a default), and the body
\* builds the tuple (f1, ..., fN).
New(flds, call) ==
  LET n == Len(flds)
      np == Len(call.pos)
  IN IF np > n
       THEN Raise("TypeError")
     ELSE IF \E j \in 1 .. Len(call.kw) : KwName(call, j) \notin Range(flds)
       THEN Raise("TypeError")
     ELSE IF \E j \in 1 .. Len(call.kw) : IndexOf(flds, KwName(call, j)) <= np
       THEN Raise("TypeError")
     ELSE IF \E j, k \in 1 .. Len(call.kw) :
               j # k /\ KwName(call, j) = KwName(call, k)
       THEN Raise("TypeError")
     ELSE IF \E i \in (np + 1) .. n : flds[i] \notin KwNames(call)
       THEN Raise("TypeError")
     ELSE Return([i \in 1 .. n |->
                    IF i <= np THEN call.pos[i] ELSE KwValue(call, flds[i])])

\* A field property that indexes one place too far (wrapping around).
GetAttrOffByOne(o, name) ==
  IF IsInstance(o) /\ name \in Range(fields[o.cls])
    THEN [ok |-> TRUE,
          val |-> o.items[(IndexOf(fields[o.cls], name) % Len(o.items)) + 1],
          err |-> ""]
    ELSE [ok |-> FALSE, val |-> 0, err |-> "AttributeError"]

\* o.name: each field name is a property of the class that returns the tuple
\* item at the name's index in _fields; any other name on these objects
\* raises AttributeError.
GetAttr(o, name) ==
  IF IsInstance(o) /\ name \in Range(fields[o.cls])
    THEN [ok |-> TRUE,
          val |-> o.items[IndexOf(fields[o.cls], name)],
          err |-> ""]
    ELSE [ok |-> FALSE, val |-> 0, err |-> "AttributeError"]

\* A field property with a setter that stores the value.
SetAttrStoring(o, name, v) ==
  [ok |-> TRUE,
   obj |-> [o EXCEPT !.items[IndexOf(fields[o.cls], name)] = v],
   err |-> ""]

\* o.name = v for a declared field: the property has no setter, so the
\* assignment raises AttributeError and the object is left as it was.
SetAttr(o, name, v) ==
  [ok |-> FALSE, obj |-> o, err |-> "AttributeError"]

\* An equality that compares the lengths only.
TupleEqLengthOnly(x, y) ==
  Len(x.items) = Len(y.items)

\* An equality that also requires both operands to be of one class.
TupleEqSameClass(x, y) ==
  /\ x.cls = y.cls
  /\ Len(x.items) = Len(y.items)
  /\ \A i \in 1 .. Len(x.items) : x.items[i] = y.items[i]

\* x == y: no class overrides __eq__, so tuple's comparison runs: equal
\* lengths and pairwise equal items; the operands' classes play no part.
TupleEq(x, y) ==
  /\ Len(x.items) = Len(y.items)
  /\ \A i \in 1 .. Len(x.items) : x.items[i] = y.items[i]

\* ----------------------------------------------------------------- inputs

\* Value tuples of length n: every constant tuple, and every tuple that
\* differs from the all-0 tuple in one place.
Vectors(n) ==
  {[i \in 1 .. n |-> a] : a \in Values}
    \cup {[i \in 1 .. n |-> IF i = p THEN a ELSE 0] :
            p \in 1 .. n, a \in Values}

KwPairs(flds, v, from) ==
  [j \in 1 .. (Len(flds) - from) |-> <<flds[from + j], v[from + j]>>]

\* The call that passes v positionally, in declaration order.
Positional(v) == [pos |-> v, kw |-> << >>]

\* Calls that supply v one value per field: the first k positionally and the
\* rest by name, the keyword arguments written in declaration order or in
\* the reverse order.
GoodCalls(flds) ==
  UNION {{ [pos |-> SubSeq(v, 1, k), kw |-> KwPairs(flds, v, k)],
           [pos |-> SubSeq(v, 1, k), kw |-> Reverse(KwPairs(flds, v, k))] } :
         v \in Vectors(Len(flds)), k \in 0 .. Len(flds)}

\* Calls whose values do not match the declared fields one-to-one.
BadCalls(flds) ==
  LET n == Len(flds)
      v == [i \in 1 .. n |-> 1]
  IN { \* one value short, positionally and by name
       [pos |-> SubSeq(v, 1, n - 1), kw |-> << >>],
       [pos |-> << >>, kw |-> Tail(KwPairs(flds, v, 0))],
       \* no values at all
       NoCall,
       \* one positional value too many
       [pos |-> v \o <<1>>, kw |-> << >>],
       \* an unknown field name, beside or in place of a declared one
       [pos |-> v, kw |-> << <<"unknown_field", 1>> >>],
       [pos |-> SubSeq(v, 1, n - 1), kw |-> << <<"unknown_field", 1>> >>],
       \* a field given positionally and by name
       [pos |-> v, kw |-> << <<flds[1], 1>> >>],
       [pos |-> SubSeq(v, 1, n - 1), kw |-> << <<flds[1], 1>> >>],
       \* a keyword given twice (through ** unpacking)
       [pos |-> SubSeq(v, 1, n - 1),
        kw |-> << <<flds[n], 1>>, <<flds[n], 1>> >>] }

GoodCallsOf == [c \in Schemas |-> GoodCalls(ClassFields(c))]
BadCallsOf == [c \in Schemas |-> BadCalls(ClassFields(c))]
VectorsOf == [c \in Schemas |-> Vectors(Len(ClassFields(c)))]

NoResult ==
  [op |-> "none", cls |-> "None", call |-> NoCall, name |-> "",
   val |-> 0, ok |-> TRUE, err |-> "", names |-> << >>]

\* ---------------------------------------------------------------- actions

\* The caller is sequential: it issues one operation, looks at the outcome
\* and drops it before it issues the next.
Ready == last = NoResult

\* The instance cls(*call.pos, **call.kw), when the call succeeds.
Instance(c, call, items) ==
  [cls |-> c, items |-> items, supplied |-> Supplied(fields[c], call)]

\* a = cls(*call.pos, **call.kw)
Construct(c, call) ==
  LET res == New(fields[c], call)
  IN /\ Ready
     /\ obj' = IF res.ok THEN Instance(c, call, res.items) ELSE obj
     /\ last' = [NoResult EXCEPT !.op = "new", !.cls = c, !.call = call,
                                 !.ok = res.ok, !.err = res.err]
     /\ UNCHANGED <<fields, pc, rname, ridx, got>>

\* a.name
ReadField(name) ==
  LET res == GetAttr(obj, name)
  IN /\ Ready
     /\ IsInstance(obj)
     /\ last' = [NoResult EXCEPT !.op = "getattr", !.name = name,
                                 !.val = res.val, !.ok = res.ok, !.err = res.err]
     /\ UNCHANGED <<fields, obj, pc, rname, ridx, got>>

\* a.name = v
AssignField(name, v) ==
  LET res == SetAttr(obj, name, v)
  IN /\ Ready
     /\ IsInstance(obj)
     /\ name \in Range(fields[obj.cls])
     /\ obj' = res.obj
     /\ last' = [NoResult EXCEPT !.op = "setattr", !.name = name, !.val = v,
                                 !.ok = res.ok, !.err = res.err]
     /\ UNCHANGED <<fields, pc, rname, ridx, got>>

\* a == cls(*v)
CompareInstance(c, v) ==
  LET res == New(fields[c], Positional(v))
  IN /\ Ready
     /\ IsInstance(obj)
     /\ res.ok
     /\ last' = [NoResult EXCEPT
                   !.op = "eq", !.cls = c, !.call = Positional(v),
                   !.ok = TupleEq(obj, Instance(c, Positional(v), res.items))]
     /\ UNCHANGED <<fields, obj, pc, rname, ridx, got>>

\* a == (v1, ..., vn)
CompareTuple(v) ==
  /\ Ready
  /\ IsInstance(obj)
  /\ last' = [NoResult EXCEPT !.op = "eq", !.cls = "tuple",
                              !.call = Positional(v),
                              !.ok = TupleEq(obj, PlainTuple(v))]
  /\ UNCHANGED <<fields, obj, pc, rname, ridx, got>>

\* cls._fields
ReadFields(c) ==
  /\ Ready
  /\ last' = [NoResult EXCEPT !.op = "fields", !.cls = c, !.names = fields[c]]
  /\ UNCHANGED <<fields, obj, pc, rname, ridx, got>>

\* The caller drops the outcome of the operation.
Discard ==
  /\ ~Ready
  /\ last' = NoResult
  /\ UNCHANGED <<fields, obj, pc, rname, ridx, got>>

\* A read that moves the item out of the tuple, leaving 0 behind.
FetchMoving(o, i) == [val |-> o.items[i], obj |-> [o EXCEPT !.items[i] = 0]]

\* The property's getter: the tuple item at index i; the tuple is untouched.
Fetch(o, i) == [val |-> o.items[i], obj |-> o]

\* Thread t begins a.name: the class's property for name is looked up.
ReadStart(t, name) ==
  /\ pc[t] = "idle"
  /\ IsInstance(obj)
  /\ name \in Range(fields[obj.cls])
  /\ pc' = [pc EXCEPT ![t] = "resolved"]
  /\ rname' = [rname EXCEPT ![t] = name]
  /\ ridx' = [ridx EXCEPT ![t] = IndexOf(fields[obj.cls], name)]
  /\ UNCHANGED <<fields, obj, last, got>>

\* Thread t's getter indexes the tuple.
ReadFetch(t) ==
  /\ pc[t] = "resolved"
  /\ got' = [got EXCEPT ![t] = Fetch(obj, ridx[t]).val]
  /\ obj' = Fetch(obj, ridx[t]).obj
  /\ pc' = [pc EXCEPT ![t] = "done"]
  /\ UNCHANGED <<fields, last, rname, ridx>>

\* Thread t has used the value it read.
ReadDone(t) ==
  /\ pc[t] = "done"
  /\ pc' = [pc EXCEPT ![t] = "idle"]
  /\ rname' = [rname EXCEPT ![t] = ""]
  /\ ridx' = [ridx EXCEPT ![t] = 0]
  /\ got' = [got EXCEPT ![t] = 0]
  /\ UNCHANGED <<fields, obj, last>>

\* The state once the module is imported: the six classes are defined and
\* the caller holds no instance yet.
Init ==
  /\ fields = [c \in Schemas |-> ClassFields(c)]
  /\ obj = None
  /\ last = NoResult
  /\ pc = [t \in Threads |-> "idle"]
  /\ rname = [t \in Threads |-> ""]
  /\ ridx = [t \in Threads |-> 0]
  /\ got = [t \in Threads |-> 0]

Next ==
  \/ \E c \in Schemas : \E call \in GoodCallsOf[c] : Construct(c, call)
  \/ \E c \in Schemas : \E call \in BadCallsOf[c] : Construct(c, call)
  \/ \E name \in FieldNames(obj) \cup {"unknown_field"} : ReadField(name)
  \/ \E name \in FieldNames(obj), v \in Values : AssignField(name, v)
  \/ \E c \in Schemas : \E v \in VectorsOf[c] : CompareInstance(c, v)
  \/ \E c \in Schemas : \E v \in VectorsOf[c] : CompareTuple(v)
  \/ \E c \in Schemas : ReadFields(c)
  \/ Discard

Spec == Init /\ [][Next]_vars

\* One instance is constructed, and only then shared with the reader
\* threads, which read its fields in any interleaving.
NextShared ==
  \/ \E c \in Schemas : \E v \in VectorsOf[c] :
       obj = None /\ Construct(c, Positional(v))
  \/ Discard
  \/ \E t \in Threads : \E name \in FieldNames(obj) : ReadStart(t, name)
  \/ \E t \in Threads : ReadFetch(t)
  \/ \E t \in Threads : ReadDone(t)

SpecShared == Init /\ [][NextShared]_vars

\* ----------------------------------------------------------- properties

\* The field lists as the documentation states them, written out in full.
DeclaredOrder(c) ==
  CASE c = "GANModel" ->
         << "generator_inputs", "generated_data", "generator_variables",
            "generator_scope", "generator_fn", "real_data",
            "discriminator_real_outputs", "discriminator_gen_outputs",
            "discriminator_variables", "discriminator_scope",
            "discriminator_fn" >>
    [] c = "InfoGANModel" ->
         << "generator_inputs", "generated_data", "generator_variables",
            "generator_scope", "generator_fn", "real_data",
            "discriminator_real_outputs", "discriminator_gen_outputs",
            "discriminator_variables", "discriminator_scope",
            "discriminator_fn", "structured_generator_inputs",
            "predicted_distributions" >>
    [] c = "ACGANModel" ->
         << "generator_inputs", "generated_data", "generator_variables",
            "generator_scope", "generator_fn", "real_data",
            "discriminator_real_outputs", "discriminator_gen_outputs",
            "discriminator_variables", "discriminator_scope",
            "discriminator_fn", "one_hot_labels",
            "discriminator_real_classification_logits",
            "discriminator_gen_classification_logits" >>
    [] c = "GANLoss" -> << "generator_loss", "discriminator_loss" >>
    [] c = "GANTrainOps" ->
         << "generator_train_op", "discriminator_train_op",
            "global_step_inc_op" >>
    [] c = "GANTrainSteps" ->
         << "generator_train_steps", "discriminator_train_steps" >>

\* The value the constructing call supplied for a field of instance o.
SuppliedValue(o, name) == CHOOSE v \in Values : <<name, v>> \in o.supplied

\* The values instance o was constructed from, in declaration order.
ValuesInOrder(o) ==
  [i \in 1 .. Len(DeclaredOrder(o.cls)) |->
     SuppliedValue(o, DeclaredOrder(o.cls)[i])]

\* The instance the all-positional call cls(*v) returns.
PositionalInstance(c, v) ==
  Instance(c, Positional(v), New(fields[c], Positional(v)).items)

\* C1: reading any declared field of an instance by name returns exactly the
\* value the constructing call supplied for that field, for each of the six
\* schemas.
C1_RoundTrip ==
  /\ IsInstance(obj) =>
       \A name \in Range(DeclaredOrder(obj.cls)) :
         /\ GetAttr(obj, name).ok
         /\ GetAttr(obj, name).val = SuppliedValue(obj, name)
  /\ (last.op = "getattr" /\ last.name \in Range(DeclaredOrder(obj.cls))) =>
       /\ last.ok
       /\ <<last.name, last.val>> \in obj.supplied

\* GANTrainSteps(generator_train_steps=1, discriminator_train_steps=1) has been
\* built and its second field read back as 1.
C1_Witness ==
  /\ obj.cls = "GANTrainSteps"
  /\ obj.supplied = { <<"generator_train_steps", 1>>,
                      <<"discriminator_train_steps", 1>> }
  /\ last.op = "getattr"
  /\ last.name = "discriminator_train_steps"
  /\ last.ok
  /\ last.val = 1

\* C2: InfoGANModel's fields are GANModel's eleven, in order, then
\* structured_generator_inputs and predicted_distributions; ACGANModel's are
\* GANModel's eleven, then one_hot_labels and the two classification logits;
\* so the first eleven fields of such an instance, read by name, equal the
\* fields of a GANModel built from the same first eleven values.
C2_FieldExtension ==
  /\ fields["InfoGANModel"] = DeclaredOrder("InfoGANModel")
  /\ fields["ACGANModel"] = DeclaredOrder("ACGANModel")
  /\ Len(fields["InfoGANModel"]) = 13
  /\ Len(fields["ACGANModel"]) = 14
  /\ \A c \in {"InfoGANModel", "ACGANModel"} :
       SubSeq(fields[c], 1, 11) = fields["GANModel"]
  /\ obj.cls \in {"InfoGANModel", "ACGANModel"} =>
       LET base == PositionalInstance("GANModel",
                                      SubSeq(ValuesInOrder(obj), 1, 11))
       IN \A i \in 1 .. 11 :
            GetAttr(obj, DeclaredOrder("GANModel")[i])
              = GetAttr(base, DeclaredOrder("GANModel")[i])

\* An InfoGANModel whose discriminator_fn alone is 1 has had that field read.
C2_Witness ==
  /\ obj.cls = "InfoGANModel"
  /\ last.op = "getattr"
  /\ last.name = "discriminator_fn"
  /\ last.val = 1
  /\ SuppliedValue(obj, "structured_generator_inputs") = 0
  /\ SuppliedValue(obj, "discriminator_scope") = 0

\* C3: an instance's fields never change: every item equals the value the
\* instance was constructed with, and an attempt to assign a declared field
\* fails.
C3_Immutable ==
  /\ IsInstance(obj) =>
       /\ Len(obj.items) = Len(DeclaredOrder(obj.cls))
       /\ \A i \in 1 .. Len(obj.items) :
            obj.items[i] = SuppliedValue(obj, DeclaredOrder(obj.cls)[i])
  /\ last.op = "setattr" => ~last.ok /\ last.err = "AttributeError"

\* An assignment of a value other than the field's own has been attempted.
C3_Witness ==
  /\ last.op = "setattr"
  /\ IsInstance(obj)
  /\ last.val # SuppliedValue(obj, last.name)

\* C4: a constructor call whose values do not correspond one-to-one to the
\* declared fields raises, and produces no instance: the caller's reference
\* is left as it was.
C4_ArityError ==
  [][(last'.op = "new"
        /\ ~OneToOne(DeclaredOrder(last'.cls), last'.call))
       => (~last'.ok /\ last'.err = "TypeError" /\ obj' = obj)]_vars

\* GANLoss has been called with three values, after an instance was built.
C4_Witness ==
  /\ last.op = "new"
  /\ last.cls = "GANLoss"
  /\ Len(last.call.pos) = 3
  /\ ~last.ok
  /\ IsInstance(obj)

\* C5: an instance and another instance of the same schema compare equal
\* exactly when every pair of corresponding fields is equal.
C5_EqualityWithinSchema ==
  (last.op = "eq" /\ last.cls = obj.cls) =>
    (last.ok <=>
       \A name \in Range(DeclaredOrder(obj.cls)) :
         SuppliedValue(obj, name)
           = SuppliedValue(PositionalInstance(last.cls, last.call.pos), name))

\* Two instances of one schema that differ in a single field compared unequal.
C5_Witness ==
  /\ last.op = "eq"
  /\ last.cls = obj.cls
  /\ ~last.ok
  /\ Cardinality(obj.supplied
                   \ PositionalInstance(last.cls, last.call.pos).supplied) = 1

\* C6: a constructor call that supplies exactly one value per declared field
\* succeeds whatever the values are, and the instance holds them.
C6_NoValidation ==
  (last.op = "new" /\ OneToOne(DeclaredOrder(last.cls), last.call)) =>
    /\ last.ok
    /\ obj.cls = last.cls
    /\ obj.supplied = Supplied(DeclaredOrder(last.cls), last.call)

\* An InfoGANModel was built whose two added sequences differ in length.
C6_Witness ==
  /\ last.op = "new"
  /\ last.ok
  /\ obj.cls = "InfoGANModel"
  /\ SeqLen(SuppliedValue(obj, "structured_generator_inputs"))
       # SeqLen(SuppliedValue(obj, "predicted_distributions"))

\* C7: however a successful call passes its values (positionally, by name in
\* any order, or a positional prefix and the rest by name), the instance has
\* the fields of the one built from the same values passed positionally in
\* declaration order; and a call that leaves a field out fails.
C7_PositionalNamedEquivalent ==
  last.op = "new" =>
    /\ last.ok =>
         LET ref == PositionalInstance(last.cls, ValuesInOrder(obj))
         IN /\ obj.items = ref.items
            /\ \A name \in Range(DeclaredOrder(last.cls)) :
                 GetAttr(obj, name) = GetAttr(ref, name)
    /\ (\E name \in Range(DeclaredOrder(last.cls)) :
          \A i \in 1 .. Len(BoundNames(DeclaredOrder(last.cls), last.call)) :
            BoundNames(DeclaredOrder(last.cls), last.call)[i] # name)
         => ~last.ok

\* GANTrainOps(0, global_step_inc_op=1, discriminator_train_op=0) was built.
C7_Witness ==
  /\ last.op = "new"
  /\ last.ok
  /\ last.cls = "GANTrainOps"
  /\ last.call = [pos |-> <<0>>,
                  kw |-> << <<"global_step_inc_op", 1>>,
                            <<"discriminator_train_op", 0>> >>]
  /\ obj.items = <<0, 0, 1>>

\* C8: with the instance constructed before any read, every read a thread
\* completes returns the construction-time value of the field it named, and
\* the instance the threads share stays as constructed.
C8_ConcurrentReads ==
  /\ \A t \in Threads :
       pc[t] = "done" => <<rname[t], got[t]>> \in obj.supplied
  /\ \A t \in Threads :
       pc[t] # "idle" =>
         /\ IsInstance(obj)
         /\ DeclaredOrder(obj.cls)[ridx[t]] = rname[t]
  /\ IsInstance(obj) =>
       \A i \in 1 .. Len(obj.items) :
         obj.items[i] = SuppliedValue(obj, DeclaredOrder(obj.cls)[i])

\* One thread has read the field that holds 1 while the other is in the
\* middle of reading the same field.
C8_Witness ==
  /\ pc[1] = "done"
  /\ pc[2] = "resolved"
  /\ rname[1] = rname[2]
  /\ got[1] = 1
  /\ \E name \in FieldNames(obj) : SuppliedValue(obj, name) = 0

\* C9: every schema's field list is the declared sequence in every state and
\* on every introspection, and the i-th positional value of a successful
\* call is the value of the i-th declared field.
C9_FieldOrder ==
  /\ \A c \in Schemas : fields[c] = DeclaredOrder(c)
  /\ last.op = "fields" => last.names = DeclaredOrder(last.cls)
  /\ (last.op = "new" /\ last.ok) =>
       \A i \in 1 .. Len(last.call.pos) :
         GetAttr(obj, DeclaredOrder(last.cls)[i])
           = [ok |-> TRUE, val |-> last.call.pos[i], err |-> ""]

\* GANModel's field list was read after an instance had been constructed.
C9_Witness ==
  /\ last.op = "fields"
  /\ last.cls = "GANModel"
  /\ IsInstance(obj)

\* C10: equality ignores the schema: an instance equals an instance of any
\* schema, or a plain tuple, that has as many items and pairwise equal
\* values, and never equals one with a different number of items.
C10_EqualityIgnoresSchema ==
  last.op = "eq" =>
    /\ (/\ Len(last.call.pos) = Len(ValuesInOrder(obj))
        /\ \A i \in 1 .. Len(last.call.pos) :
             last.call.pos[i] = ValuesInOrder(obj)[i])
         => last.ok
    /\ Len(last.call.pos) # Len(ValuesInOrder(obj)) => ~last.ok

\* A GANLoss compared equal to a GANTrainSteps built from the same values.
C10_Witness ==
  /\ last.op = "eq"
  /\ obj.cls = "GANLoss"
  /\ last.cls = "GANTrainSteps"
  /\ last.ok
  /\ last.call.pos = <<0, 1>>

====
